---- MODULE Spec2Model ----
(***************************************************************************)
(* ComfyUI_Adforge: the Vertex Veo video nodes, the GCS loader and the     *)
(* Chirp text-to-speech node, modelled as one node invocation at a time.   *)
(*                                                                         *)
(* One behaviour is one invocation of one node.  The external              *)
(* collaborators (generation backend, object store, clock, file system)    *)
(* are the environment: every call the code makes to one of them is        *)
(* appended to `trace`, and what they answer is chosen nondeterministically*)
(* at the step that calls them.                                            *)
(*                                                                         *)
(* Text is a sequence of tokens.  A token is one character, except that    *)
(* the fixed chunks the code writes or tests as a whole ("gs:", "video_",  *)
(* ".mp4", "rand", ...) are one token each.                                *)
(***************************************************************************)
EXTENDS Integers, Sequences, FiniteSets, TLC

\* ------------------------------------------------------------------ bounds
MaxPolls == 3      \* status fetches counted exactly; beyond it the counters saturate
MaxSeed == 8       \* largest base seed drawn
MaxUriLen == 7     \* longest storage URI (in tokens) drawn for the direct download paths
MaxCounter == 2    \* largest counter of a file already in the output directory
MaxPeerVideos == 2 \* most items of the second, concurrent materialization

\* ------------------------------------------------------- program constants
POLL_DELAY_SECONDS == 5
MaxVideos == 4

\* --------------------------------------------------------------- helpers
Max(S) == CHOOSE x \in S : \A y \in S : y <= x

Range(s) == {s[i] : i \in 1..Len(s)}

\* How many times x occurs in s.
Count(s, x) == Cardinality({i \in 1..Len(s) : s[i] = x})

SeqsUpTo(S, n) == UNION {[1..k -> S] : k \in 0..n}

Digit(d) == <<"0", "1", "2", "3", "4", "5", "6", "7", "8", "9">>[d + 1]

Digits == {Digit(d) : d \in 0..9}

DigitVal(c) == CHOOSE d \in 0..9 : Digit(d) = c

\* str(n) of a natural number: its decimal digits, most significant first.
RECURSIVE NatStr(_)
NatStr(n) == IF n < 10 THEN <<Digit(n)>> ELSE NatStr(n \div 10) \o <<Digit(n % 10)>>

\* str(n) of an integer.
Str(n) == IF n < 0 THEN <<"-">> \o NatStr(-n) ELSE NatStr(n)

\* f"{n:05}": decimal, left-padded with zeros to at least five characters.
Pad5(n) == LET s == NatStr(n) IN
           IF Len(s) >= 5 THEN s ELSE [i \in 1..(5 - Len(s)) |-> "0"] \o s

RECURSIVE DigitsVal(_)
DigitsVal(s) == IF Len(s) = 0 THEN 0
                ELSE 10 * DigitsVal(SubSeq(s, 1, Len(s) - 1)) + DigitVal(s[Len(s)])

\* int(s) succeeds on an optional sign followed by at least one decimal digit;
\* on anything else it raises ValueError.
IntOk(s) ==
    LET body == IF Len(s) > 0 /\ s[1] = "-" THEN Tail(s) ELSE s
    IN Len(body) > 0 /\ \A i \in 1..Len(body) : body[i] \in Digits

IntVal(s) == IF s[1] = "-" THEN 0 - DigitsVal(Tail(s)) ELSE DigitsVal(s)

\* The number of leading tokens of s that are not in stop.
RECURSIVE RunLen(_, _)
RunLen(s, stop) == IF Len(s) = 0 \/ s[1] \in stop THEN 0 ELSE 1 + RunLen(Tail(s), stop)

StartsWithGs(uri) == Len(uri) >= 3 /\ uri[1] = "gs:" /\ uri[2] = "/" /\ uri[3] = "/"

\* (the pattern with an optional object path: r"gs://([^/]+)/(.*)")
GcsMatchEmptyPath(uri) ==
    LET rest == IF StartsWithGs(uri) THEN SubSeq(uri, 4, Len(uri)) ELSE <<>>
        b    == RunLen(rest, {"/"})
        tl   == IF Len(rest) > b THEN SubSeq(rest, b + 2, Len(rest)) ELSE <<>>
        n    == RunLen(tl, {"\n"})
    IN [ok     |-> StartsWithGs(uri) /\ b >= 1 /\ Len(rest) > b,
        bucket |-> SubSeq(rest, 1, b),
        blob   |-> SubSeq(tl, 1, n)]

\* ------------------------------------------------- storage URI parsing
\* re.match(r"gs://([^/]+)/(.+)", gcs_uri): anchored at the start only; the
\* bucket is the longest run of non-slash tokens, the blob the longest run of
\* non-newline tokens after the slash that follows it.
GcsMatch(uri) ==
    LET rest == IF StartsWithGs(uri) THEN SubSeq(uri, 4, Len(uri)) ELSE <<>>
        b    == RunLen(rest, {"/"})
        tl   == IF Len(rest) > b THEN SubSeq(rest, b + 2, Len(rest)) ELSE <<>>
        n    == RunLen(tl, {"\n"})
    IN [ok     |-> StartsWithGs(uri) /\ b >= 1 /\ Len(rest) > b /\ n >= 1,
        bucket |-> SubSeq(rest, 1, b),
        blob   |-> SubSeq(tl, 1, n)]

\* LoadVideoGCS.load_video: startswith("gs://"), then video_uri[5:].split("/", 1);
\* an empty bucket or an empty path raises ValueError.
LoadVideoParse(uri) ==
    LET rest == IF StartsWithGs(uri) THEN SubSeq(uri, 4, Len(uri)) ELSE <<>>
        b    == RunLen(rest, {"/"})
        blob == IF Len(rest) > b THEN SubSeq(rest, b + 2, Len(rest)) ELSE <<>>
    IN [ok     |-> StartsWithGs(uri) /\ b >= 1 /\ Len(blob) >= 1,
        bucket |-> SubSeq(rest, 1, b),
        blob   |-> blob]

\* os.path.basename: what follows the last slash.
RECURSIVE Basename(_)
Basename(p) == IF Len(p) = 0 \/ p[Len(p)] = "/" THEN <<>>
               ELSE Basename(SubSeq(p, 1, Len(p) - 1)) \o <<p[Len(p)]>>

\* ------------------------------------------------------ node declarations
\* The node classes of the package that declare a schema (define_schema): the
\* class, its module, and the node_id, the category, the output types and the
\* entry method it declares.
SchemaClass(cls, module, id, cat, outs) ==
    [class |-> cls, module |-> module, node_id |-> id, category |-> cat, outputs |-> outs,
     function |-> "execute"]

Example ==
    SchemaClass("Example", "nodes", "VertexVeoVideoToVideoNode",
                "AdForge/Video Generation", <<"VIDEO", "STRING">>)

VertexVeoTextToVideoNode ==
    SchemaClass("VertexVeoTextToVideoNode", "video_generation.vertex_text_to_video",
                "VertexVeoTextToVideoNode", "AdForge/Video Generation", <<"VIDEO", "STRING">>)

VertexVeoImageToVideoNode ==
    SchemaClass("VertexVeoImageToVideoNode", "video_generation.vertex_image_to_video",
                "VertexVeoImageToVideoNode", "AdForge/Video Generation", <<"VIDEO", "STRING">>)

VertexVeoFirstLastFrameToVideoNode ==
    SchemaClass("VertexVeoFirstLastFrameToVideoNode",
                "video_generation.vertex_first_last_frame_to_video",
                "VertexVeoFirstLastFrameToVideoNode", "AdForge/Video Generation",
                <<"VIDEO", "STRING">>)

VertexVeoVideoWithReferenceNode ==
    SchemaClass("VertexVeoVideoWithReferenceNode", "video_generation.vertex_video_with_reference",
                "VertexVeoVideoWithReferenceNode", "AdForge/Video Generation",
                <<"VIDEO", "STRING">>)

VertexVeoExtendVideoNode ==
    SchemaClass("VertexVeoExtendVideoNode", "video_generation.vertex_extend_video",
                "VertexVeoExtendVideoNode", "AdForge/Video Generation", <<"VIDEO", "STRING">>)

ApiVertexVeoImageToVideoNode ==
    SchemaClass("VertexVeoImageToVideoNode", "api_nodes.video_generation.vertex_image_to_video",
                "VertexVeoImageToVideoNode", "Creditas' AdForge/Video Generation",
                <<"STRING", "STRING">>)

SchemaClasses ==
    {Example, VertexVeoTextToVideoNode, VertexVeoImageToVideoNode,
     VertexVeoFirstLastFrameToVideoNode, VertexVeoVideoWithReferenceNode,
     VertexVeoExtendVideoNode, ApiVertexVeoImageToVideoNode}

\* The metadata a schema class shows: the types of its outputs, the name of
\* its entry method and its category.
RETURN_TYPES(c) == c.outputs

FUNCTION(c) == c.function

CATEGORY(c) == c.category

\* nodes.py: key -> the name of the class it is bound to.
NODE_CLASS_MAPPINGS ==
    [k \in {"VertexVeoTextToVideoNode", "VertexVeoImageToVideoNode",
            "VertexVeoFirstLastFrameToVideoNode", "VertexVeoVideoToVideoNode",
            "VertexVeoVideoWithReferenceNode", "LoadVideoGCS"} |-> k]

NODE_DISPLAY_NAME_MAPPINGS ==
    ("VertexVeoTextToVideoNode" :> "Vertex Veo Text to Video")
      @@ ("VertexVeoImageToVideoNode" :> "Vertex Veo Image to Video")
      @@ ("VertexVeoFirstLastFrameToVideoNode" :> "Vertex Veo First-Last Frame to Video")
      @@ ("VertexVeoVideoToVideoNode" :> "Vertex Veo Video to Video")
      @@ ("VertexVeoVideoWithReferenceNode" :> "Vertex Veo Video with Reference")
      @@ ("LoadVideoGCS" :> "Load Video from GCS")

\* ------------------------------------------------------------- the nodes
\* The nodes that end in utils.process_genai_results, and the file name prefix
\* each passes to it.
ProcessNodes == {"t2v", "i2v", "flf", "ref", "ext", "v2v"}

ApiNodes == {"api_i2v"}

VideoNodes == ProcessNodes \cup ApiNodes

\* Direct calls of the two download paths, and the text-to-speech node.
StorageNodes == {"download_from_gcs", "load_video"}

TtsNodes == {"tts"}

Nodes == VideoNodes \cup StorageNodes \cup TtsNodes

filename_prefix(n) ==
    CASE n = "t2v" -> "vertex-t2v"
      [] n = "i2v" -> "vertex-i2v"
      [] n = "flf" -> "vertex-fl-frame"
      [] n = "ref" -> "vertex-ref"
      [] n = "ext" -> "vertex-extend"
      [] n = "v2v" -> "vertex-v2v"

\* The class whose execute a video node of the model runs.
NodeClassOf(n) ==
    CASE n = "t2v" -> VertexVeoTextToVideoNode
      [] n = "i2v" -> VertexVeoImageToVideoNode
      [] n = "flf" -> VertexVeoFirstLastFrameToVideoNode
      [] n = "ref" -> VertexVeoVideoWithReferenceNode
      [] n = "ext" -> VertexVeoExtendVideoNode
      [] n = "v2v" -> Example
      [] n = "api_i2v" -> ApiVertexVeoImageToVideoNode

\* The name settings.get_default_gcs_uri is called with.
default_name(n) ==
    CASE n = "t2v" -> "text-to-video"
      [] n \in {"i2v", "api_i2v"} -> "image-to-video"
      [] n = "ref" -> "video-with-reference"
      [] n \in {"ext", "v2v"} -> "video-to-video"
      [] OTHER -> ""

\* ----------------------------------------------------------------- inputs
SeedValues == {-2, -1, 0, 7, MaxSeed}

\* A source-media slot: inline media (an image or video input) and a reference
\* to it: "" (none), "gs" (a storage URI), "file" (a path of an existing
\* non-empty file) or "nofile" (a path of no file).
NoSlot == [bytes |-> FALSE, ref |-> ""]

ImageSlots == [bytes : BOOLEAN, ref : {"", "gs"}]

VideoSlots == [bytes : BOOLEAN, ref : {"", "gs", "file", "nofile"}]

Slot1(n) == CASE n \in {"i2v", "api_i2v", "flf", "ref"} -> ImageSlots
              [] n \in {"ext", "v2v"} -> VideoSlots
              [] OTHER -> {NoSlot}

Slot2(n) == IF n = "flf" THEN ImageSlots ELSE {NoSlot}

OutputFormats(n) == IF n \in ApiNodes THEN {"local_file", "gcs_uri"} ELSE {"n/a"}

\* output_gcs_uri as the caller gives it: empty, or a bucket path.
OutputUris == {<<>>, <<"gs:", "/", "/", "out", "/", "mine">>}

UriTokens == {"gs:", "/", "a"}

UriInputs == SeqsUpTo(UriTokens, MaxUriLen)

\* output_path_or_seed of download_from_gcs: an absolute path, or a seed.
AbsPath == <<"/", "abs", "/", "v.mp4">>

\* ------------------------------------------------------ the environment
NoError == "None"

\* operation.error when it is set: the status object of a failed operation,
\* which is never empty (it carries the code and the message of the failure).
ErrorInfo == {"quota exceeded"}

\* An operation handle as a status fetch returns it.  videos is the length of
\* result.generated_videos, 0 while there is no result.
Handles ==
    [done : {FALSE}, error : {NoError} \cup ErrorInfo, videos : {0}]
      \cup [done : {TRUE}, error : ErrorInfo, videos : {0}]
      \cup [done : {TRUE}, error : {NoError}, videos : 1..MaxVideos]

NoOperation == [done |-> FALSE, error |-> NoError, videos |-> 0]

ItemUri(i) == <<"gs:", "/", "/", "out", "/", "sample_", Digit(i), ".mp4">>

ItemBytes(i) == <<"bytes", Digit(i)>>

\* video.uri and video.video_bytes when they are None.
NoUri == <<"<None>">>

NoBytes == <<>>

\* The generated item with index i: a storage URI when the request named an
\* output storage URI (a non-empty one), inline bytes otherwise.
GeneratedVideo(i, cfg) ==
    IF "output_gcs_uri" \in DOMAIN cfg /\ cfg["output_gcs_uri"] # <<>>
    THEN [uri |-> ItemUri(i), video_bytes |-> NoBytes]
    ELSE [uri |-> NoUri, video_bytes |-> ItemBytes(i)]

\* The object a storage URI names.
Blob(bucket, name) == <<"blob">> \o bucket \o <<"/">> \o name

OldContent == <<"old">>

\* What blob.download_to_filename raises when the download fails, and what
\* open(video_path, "wb") / f.write raise when the write fails.
DownloadFailure == <<"GoogleAPIError", "download interrupted">>

WriteFailure == <<"OSError", "No space left on device">>

\* The content of a file whose write stopped halfway.
Partial == <<"partial">>

\* The files after a write to `path` that failed: the failure came before the
\* file was opened (nothing changed), or after (open(path, "wb") created or
\* truncated it, and it holds what was written before the failure).
FailedWrite(d, path) == {d, (path :> Partial) @@ d}

\* ------------------------------------------------------ pure operations
\* strftime("%Y%m%d-%H%M%S") of the clock: one text per second.
Timestamp(t) == NatStr(t)

GOOGLE_CLOUD_STORAGE_BUCKET == "bucket-setting"

get_default_gcs_uri(name, t) ==
    <<GOOGLE_CLOUD_STORAGE_BUCKET, "/", "videos", "/", name, "-">> \o Timestamp(t) \o <<".mp4">>

\* (the output format test inverted)
IsRemoteTargetInverted(output_format) == output_format # "gcs_uri"

\* api image-to-video: `if output_format == "gcs_uri"`
IsRemoteTarget(output_format) == output_format = "gcs_uri"

\* (seed 0 taken for unset: `if seed > 0`)
SeedParamsPositive(seed) == IF seed > 0 THEN "seed" :> seed ELSE <<>>

\* `if seed >= 0: config_params["seed"] = seed`
SeedParams(seed) == IF seed >= 0 THEN "seed" :> seed ELSE <<>>

\* The output_gcs_uri entry of config_params.
OutputParams(n, output_gcs_uri, output_format, t) ==
    CASE n = "flf" -> "output_gcs_uri" :> output_gcs_uri
      [] n \in ProcessNodes \ {"flf"} ->
           "output_gcs_uri" :> (IF output_gcs_uri = <<>>
                                THEN get_default_gcs_uri(default_name(n), t)
                                ELSE output_gcs_uri)
      [] n \in ApiNodes /\ IsRemoteTarget(output_format) ->
           "output_gcs_uri" :> (IF output_gcs_uri = <<>>
                                THEN get_default_gcs_uri(default_name(n), t)
                                ELSE output_gcs_uri)
      [] OTHER -> <<>>

\* config_params as execute builds it before the try block (the entries that
\* do not depend on the source media).
config_params(n, a, t) ==
    SeedParams(a.seed) @@ OutputParams(n, a.output_gcs_uri, a.output_format, t)

\* The whole configuration sent with generate_videos: config_params, and for
\* the first/last-frame node its "last_frame" entry, set in the try block.
RequestConfig(n, a, t, last) ==
    config_params(n, a, t) @@ (IF n = "flf" THEN "last_frame" :> last ELSE <<>>)

\* utils.bytify_image / utils.bytify_video: bytes, or None (FALSE here).
bytify_image(slot) == slot.bytes

bytify_video(slot) == slot.bytes \/ slot.ref = "file"

\* (source-media checks that take the storage URI first)
SourceMediaPrefersUri(n, s1, s2) ==
    IF s1.ref = "gs" /\ (n # "flf" \/ s2.ref = "gs")
    THEN [ok |-> TRUE, source |-> "gcs_uri", last |-> IF n = "flf" THEN "gcs_uri" ELSE ""]
    ELSE [ok |-> TRUE, source |-> "image_bytes", last |-> IF n = "flf" THEN "image_bytes" ELSE ""]

\* (source-media checks that let a request without source media through)
SourceMediaUnchecked(n, s1, s2) ==
    [ok |-> TRUE, source |-> IF s1.bytes THEN "image_bytes" ELSE "gcs_uri", last |-> ""]

\* The source-media checks of execute: which representation the request
\* carries for the source, or the message of the ValueError raised.
SourceMedia(n, s1, s2) ==
    CASE n \in {"i2v", "api_i2v"} ->
           IF bytify_image(s1) THEN [ok |-> TRUE, source |-> "image_bytes", last |-> ""]
           ELSE IF s1.ref # "" THEN [ok |-> TRUE, source |-> "gcs_uri", last |-> ""]
           ELSE [ok |-> FALSE, msg |-> "Either an image or an image GCS URI must be provided."]
      [] n = "flf" ->
           IF bytify_image(s1) /\ bytify_image(s2)
           THEN [ok |-> TRUE, source |-> "image_bytes", last |-> "image_bytes"]
           ELSE IF s1.ref # "" /\ s2.ref # ""
           THEN [ok |-> TRUE, source |-> "gcs_uri", last |-> "gcs_uri"]
           ELSE [ok |-> FALSE, msg |-> "Either both images or both GCS URIs must be provided."]
      [] n = "ref" ->
           IF bytify_image(s1) THEN [ok |-> TRUE, source |-> "image_bytes", last |-> ""]
           ELSE IF s1.ref # "" THEN [ok |-> TRUE, source |-> "gcs_uri", last |-> ""]
           ELSE [ok |-> FALSE,
                 msg |-> "A reference image (local upload or GCS URI) must be provided."]
      [] n \in {"ext", "v2v"} ->
           IF bytify_video(s1) THEN [ok |-> TRUE, source |-> "video_bytes", last |-> ""]
           ELSE [ok |-> FALSE,
                 msg |-> "Either an input video path or an input video GCS URI must be provided."]
      [] OTHER -> [ok |-> TRUE, source |-> "none", last |-> ""]

\* (a submission sent a second time)
SubmitCallsRetried == <<"genai.Client", "generate_videos", "generate_videos">>

\* The calls of execute up to and including the submission: utils.get_genai_client()
\* and client.models.generate_videos(...), once each.
SubmitCalls == <<"genai.Client", "generate_videos">>

\* (a wrapper that drops the message of the exception it caught)
WrappedNoMessage(f) == <<"RuntimeError", "Video generation failed">>

\* `except Exception as e: raise RuntimeError(f"Video generation failed: {str(e)}")`:
\* a failure is its kind followed by the parts of its message.
Wrapped(f) == <<"RuntimeError", "Video generation failed: ">> \o Tail(f)

\* The video-with-reference node checks its reference image before the try block.
ValidationFailure(n, msg) ==
    IF n = "ref" THEN <<"ValueError", msg>> ELSE Wrapped(<<"ValueError", msg>>)

\* poll_operation: `if operation.error`
\* (a loop that forgets the check: every finished operation counts as a success)
HasErrorIgnored(op) == FALSE

HasError(op) == op.error # NoError

\* poll_operation: `while not operation.done`
\* (a loop that keeps polling a finished operation that failed)
LoopContinuesOnError(op) == ~op.done \/ op.error # NoError

\* (a loop that is never entered: the handle is taken as it is)
LoopContinuesNever(op) == FALSE

\* (a loop that gives up on a handle that carries an error before it is done)
LoopStopsOnError(op) == ~op.done /\ op.error = NoError

LoopContinues(op) == ~op.done

\* (a handle marked done locally after the fetch)
FetchedMarkedDone(h) == [h EXCEPT !.done = TRUE]

\* `operation = client.operations.get(operation)`: the handle the backend
\* returned replaces the one held, as it is.
Fetched(h) == h

\* `return operation.result`: the generated videos of the handle held.
ResultOf(op, cfg) == [i \in 1..op.videos |-> GeneratedVideo(i - 1, cfg)]

OperationFailure(op) == <<"RuntimeError", "Operation failed: ", op.error>>

\* What client.models.generate_videos raises when the backend refuses the request.
BackendRejection == <<"ClientError", "backend rejected the request">>

\* ----------------------------------------------------------- file names
\* process_genai_results: f"{filename}_{counter:05}_{i}.mp4" in the output folder.
VideoFile(prefix, counter, i) ==
    <<"output/", prefix, "_">> \o Pad5(counter) \o <<"_">> \o NatStr(i) \o <<".mp4">>

\* The counter a file name of the output folder carries for `prefix`:
\* int(filename[prefix_len + 1:].split('_')[0]), 0 when that is no number.
CounterOf(name) ==
    LET rest   == SubSeq(name, 4, Len(name))
        digits == SubSeq(rest, 1, RunLen(rest, {"_"}))
    IN IF IntOk(digits) THEN IntVal(digits) ELSE 0

ExistingCounters(d, prefix) ==
    {CounterOf(name) : name \in {nm \in DOMAIN d :
        Len(nm) >= 3 /\ nm[1] = "output/" /\ nm[2] = prefix /\ nm[3] = "_"}}

\* folder_paths.get_save_image_path: one more than the largest counter found
\* for the prefix, 1 when there is none.
get_save_image_path(d, prefix) ==
    IF ExistingCounters(d, prefix) = {} THEN 1 ELSE Max(ExistingCounters(d, prefix)) + 1

\* f"{seed if seed >= 0 else 'rand'}"
SeedField(seed) == IF seed >= 0 THEN NatStr(seed) ELSE <<"rand">>

\* save_video_locally: f"video_{timestamp}_{seed if seed >= 0 else 'rand'}.mp4"
\* under <output>/vertex.
LocalVideoFile(t, seed) ==
    <<"output/vertex/", "video_">> \o Timestamp(t) \o <<"_">> \o SeedField(seed) \o <<".mp4">>

TempVideoFile(t, seed) ==
    <<"temp/", "video_">> \o Timestamp(t) \o <<"_">> \o SeedField(seed) \o <<".mp4">>

\* (a file seed without the item's offset)
FileSeedNoOffset(seed, i) == seed

\* api image-to-video: `file_seed = seed; if file_seed != -1: file_seed += i`
FileSeed(seed, i) == IF seed # -1 THEN seed + i ELSE seed

\* Chirp_TTS_Node: the files of the output directory that start with
\* "chirp_output_" and end with ".mp3", and the numbers their names carry.
ChirpFile(middle) == <<"output/", "chirp_output_">> \o middle \o <<".mp3">>

existing_files(d) ==
    {nm \in DOMAIN d : Len(nm) >= 3 /\ nm[1] = "output/" /\ nm[2] = "chirp_output_"
                        /\ nm[Len(nm)] = ".mp3"}

ChirpMiddle(nm) == SubSeq(nm, 3, Len(nm) - 1)

numbers(d) == {IntVal(ChirpMiddle(nm)) : nm \in {f \in existing_files(d) : IntOk(ChirpMiddle(f))}}

\* (a next number taken from the number of files instead of the largest number)
next_number_by_count(d) == Cardinality(existing_files(d)) + 1

\* `next_number = max(numbers) + 1 if numbers else 1`
next_number(d) == IF numbers(d) = {} THEN 1 ELSE Max(numbers(d)) + 1

\* ------------------------------------------------------ download_from_gcs
\* The calls download_from_gcs makes, in order, and what it leaves: the storage
\* client is created first, then the URI is matched (re.match raises TypeError
\* on None).  dest is an absolute path (a sequence) or a seed (an integer, isSeed).
download_from_gcs(gcs_uri, isSeed, dest, t) ==
    LET m    == GcsMatch(gcs_uri)
        path == IF isSeed THEN TempVideoFile(t, dest) ELSE dest
    IN IF gcs_uri = NoUri
       THEN [ok |-> FALSE, calls |-> <<"storage.Client">>,
             failure |-> <<"TypeError", "expected string or bytes-like object">>]
       ELSE IF ~m.ok
       THEN [ok |-> FALSE, calls |-> <<"storage.Client">>,
             failure |-> <<"ValueError", "Invalid GCS URI: ">> \o gcs_uri]
       ELSE [ok |-> TRUE,
             calls |-> <<"storage.Client">>
                       \o (IF isSeed THEN <<"makedirs">> ELSE <<>>)
                       \o <<"makedirs", "download_to_filename">>,
             path |-> path, content |-> Blob(m.bucket, m.blob)]

\* LoadVideoGCS.load_video: the URI is checked first, then the client is made.
load_video(video_uri) ==
    LET m == LoadVideoParse(video_uri)
    IN IF ~StartsWithGs(video_uri)
       THEN [ok |-> FALSE, calls |-> <<>>,
             failure |-> <<"ValueError", "video_uri must be a valid GCS URI starting with gs://">>]
       ELSE IF Len(m.bucket) = 0
       THEN [ok |-> FALSE, calls |-> <<>>,
             failure |-> <<"ValueError", "GCS bucket name must be provided in the URI">>]
       ELSE IF Len(m.blob) = 0
       THEN [ok |-> FALSE, calls |-> <<>>,
             failure |-> <<"ValueError", "Video path in GCS bucket is required">>]
       ELSE IF Len(Basename(m.blob)) = 0
       THEN [ok |-> FALSE,
             calls |-> <<"storage.Client", "makedirs", "download_to_filename">>,
             failure |-> <<"IsADirectoryError", "gcs_downloads/">>]
       ELSE [ok |-> TRUE,
             calls |-> <<"storage.Client", "makedirs", "download_to_filename">>,
             path |-> <<"gcs_downloads/">> \o Basename(m.blob),
             content |-> Blob(m.bucket, m.blob)]

\* ------------------------------------------------------------------ state
VARIABLES
    node,         \* the node invoked
    args,         \* the arguments of the invocation
    pc,           \* where the invocation is
    config,       \* the configuration sent with generate_videos
    source,       \* the representation of the source media sent ("" before)
    operation,    \* poll_operation's `operation`
    result,       \* result.generated_videos, once poll_operation returned
    fetches,      \* client.operations.get calls (saturates above MaxPolls)
    sleeps,       \* time.sleep calls (saturates above MaxPolls)
    slept,        \* seconds slept in poll_operation
    firstDone,    \* the number of the first status fetch that reported done
                  \* (0: the handle generate_videos returned), -1 before
    trace,        \* the calls made to the collaborators, in order
    now,          \* the clock, in whole seconds
    disk,         \* the files: name -> content
    disk0,        \* the files when the node was invoked
    counter,      \* the counter get_save_image_path returned (0 before)
    idx,          \* the index of the next generated item
    video_uris,   \* the URIs returned
    video_paths,  \* the local paths returned
    failure,      \* the exception that left the invocation (<<>>: none)
    cause,        \* that exception as it was first raised, before any wrapping
    environ,      \* os.environ["GOOGLE_APPLICATION_CREDENTIALS"] of the process
    peer          \* a second materialization on the same output directory

vars == <<node, args, pc, config, source, operation, result, fetches, sleeps, slept,
          firstDone, trace, now, disk, disk0, counter, idx, video_uris, video_paths, failure,
          cause, environ, peer>>

Saturated == MaxPolls + 1

Bump(c) == IF c < Saturated THEN c + 1 ELSE Saturated

\* The files an output directory may hold when a node is invoked.
TtsMiddles == {NatStr(c) : c \in 1..MaxCounter} \cup {<<"0", "7">>, <<"-", "3">>, <<"x">>, <<>>}

InitialDisks(n) ==
    CASE n \in ProcessNodes ->
           {[nm \in {VideoFile(filename_prefix(n), c, 0) : c \in C} |-> OldContent] :
               C \in SUBSET (1..MaxCounter)}
      [] n \in TtsNodes ->
           {[nm \in {ChirpFile(m) : m \in M} |-> OldContent] : M \in SUBSET TtsMiddles}
      [] OTHER -> {<<>>}

\* GOOGLE_APPLICATION_CREDENTIALS as the process was started: the key file of
\* the ambient credentials.
AmbientCredentials == {"ambient-key.json"}

\* credentials_path of the text-to-speech node: its default, or a path typed in.
CredentialsPaths == {"C:/Users/leticia.rosa_santodi/Documents/service-account-key.json",
                     "other-key.json"}

\* Chirp_TTS_Node: `raise Exception("API retornou audio vazio.")`
EmptyAudio == <<"Exception", "API retornou audio vazio.">>

\* A second materialization that is not running.
NoPeer == [pc |-> "off", counter |-> 0, idx |-> 0, n |-> 0, paths |-> <<>>, overlap |-> FALSE]

NoArgs == [seed |-> 0, output_format |-> "n/a", output_gcs_uri |-> <<>>,
           s1 |-> NoSlot, s2 |-> NoSlot, uri |-> <<>>, isSeed |-> FALSE, audio |-> <<>>,
           credentials_path |-> ""]

Arguments(n) ==
    CASE n \in VideoNodes ->
           {[NoArgs EXCEPT !.seed = sd, !.output_format = f, !.output_gcs_uri = o,
                           !.s1 = a, !.s2 = b] :
               sd \in SeedValues, f \in OutputFormats(n), o \in OutputUris,
               a \in Slot1(n), b \in Slot2(n)}
      [] n \in StorageNodes ->
           {[NoArgs EXCEPT !.uri = u, !.isSeed = k, !.seed = -1] :
               u \in UriInputs, k \in (IF n = "load_video" THEN {FALSE} ELSE BOOLEAN)}
      [] n \in TtsNodes ->
           {[NoArgs EXCEPT !.audio = au, !.credentials_path = cp] :
               au \in {<<>>, <<"mp3", "1">>}, cp \in CredentialsPaths}

\* The state of the main invocation when it is called.
InitMain ==
    /\ node \in Nodes
    /\ args \in Arguments(node)
    /\ disk \in InitialDisks(node)
    /\ disk0 = disk
    /\ pc = "start"
    /\ config = <<>>
    /\ source = ""
    /\ operation = NoOperation
    /\ result = <<>>
    /\ fetches = 0
    /\ sleeps = 0
    /\ slept = 0
    /\ firstDone = -1
    /\ trace = <<>>
    /\ now = 0
    /\ counter = 0
    /\ idx = 0
    /\ video_uris = <<>>
    /\ video_paths = <<>>
    /\ failure = <<>>
    /\ cause = <<>>
    /\ environ \in AmbientCredentials

Init == InitMain /\ peer = NoPeer

\* The main invocation, or the second materialization, has taken its counter
\* and has not written all its files yet.
MainActive == (pc = "items" /\ idx < Len(result)) \/ pc = "write"

PeerActive == peer.pc = "items" /\ peer.idx < peer.n

\* ------------------------------------------------------- video nodes
\* An exception e leaves the invocation as f (e itself, or e wrapped).
Raise(e, f) == /\ cause' = e
               /\ failure' = f
               /\ pc' = "raised"

\* execute up to the failed source-media check: the client is made, the
\* configuration built, and ValueError raised before generate_videos.
SubmitInvalid ==
    /\ pc = "start" /\ node \in VideoNodes
    /\ ~SourceMedia(node, args.s1, args.s2).ok
    /\ trace' = trace \o <<"genai.Client">>
    /\ Raise(<<"ValueError", SourceMedia(node, args.s1, args.s2).msg>>,
             ValidationFailure(node, SourceMedia(node, args.s1, args.s2).msg))
    /\ UNCHANGED <<disk0, environ, peer, node, args, config, source, operation, result, fetches, sleeps, slept,
                   firstDone, now, disk, counter, idx, video_uris, video_paths>>

\* execute up to generate_videos, which the backend rejects.
SubmitRejected ==
    /\ pc = "start" /\ node \in VideoNodes
    /\ SourceMedia(node, args.s1, args.s2).ok
    /\ trace' = trace \o SubmitCalls
    /\ config' = RequestConfig(node, args, now, SourceMedia(node, args.s1, args.s2).last)
    /\ source' = SourceMedia(node, args.s1, args.s2).source
    /\ Raise(BackendRejection, Wrapped(BackendRejection))
    /\ UNCHANGED <<disk0, environ, peer, node, args, operation, result, fetches, sleeps, slept,
                   firstDone, now, disk, counter, idx, video_uris, video_paths>>

\* execute up to generate_videos, which returns an operation handle.
SubmitAccepted ==
    /\ pc = "start" /\ node \in VideoNodes
    /\ SourceMedia(node, args.s1, args.s2).ok
    /\ trace' = trace \o SubmitCalls
    /\ config' = RequestConfig(node, args, now, SourceMedia(node, args.s1, args.s2).last)
    /\ source' = SourceMedia(node, args.s1, args.s2).source
    /\ \E h \in Handles :
         /\ operation' = h
         /\ firstDone' = IF h.done THEN 0 ELSE -1
    /\ pc' = "poll"
    /\ UNCHANGED <<disk0, environ, peer, node, args, result, fetches, sleeps, slept, now, disk, counter, idx,
                   video_uris, video_paths, failure, cause>>

\* poll_operation, loop body, first half: time.sleep(settings.POLL_DELAY_SECONDS).
PollSleep ==
    /\ pc = "poll" /\ LoopContinues(operation)
    /\ sleeps' = Bump(sleeps)
    /\ IF sleeps < Saturated
       THEN /\ trace' = trace \o <<"sleep">>
            /\ slept' = slept + POLL_DELAY_SECONDS
            /\ now' = now + POLL_DELAY_SECONDS
       ELSE UNCHANGED <<trace, slept, now>>
    /\ pc' = "fetch"
    /\ UNCHANGED <<disk0, environ, peer, node, args, config, source, operation, result, fetches, firstDone, disk,
                   counter, idx, video_uris, video_paths, failure, cause>>

\* poll_operation, loop body, second half: operation = client.operations.get(operation).
PollFetch ==
    /\ pc = "fetch"
    /\ fetches' = Bump(fetches)
    /\ trace' = IF fetches < Saturated THEN trace \o <<"operations.get">> ELSE trace
    /\ \E h \in Handles :
         /\ operation' = Fetched(h)
         /\ firstDone' = IF firstDone = -1 /\ h.done THEN Bump(fetches) ELSE firstDone
    /\ pc' = "poll"
    /\ UNCHANGED <<disk0, environ, peer, node, args, config, source, result, sleeps, slept, now, disk, counter, idx,
                   video_uris, video_paths, failure, cause>>

\* poll_operation after the loop, `if operation.error: raise RuntimeError(...)`,
\* caught and wrapped by execute.
PollRaise ==
    /\ pc = "poll" /\ ~LoopContinues(operation)
    /\ HasError(operation)
    /\ Raise(OperationFailure(operation), Wrapped(OperationFailure(operation)))
    /\ UNCHANGED <<disk0, environ, peer, node, args, config, source, operation, result, fetches, sleeps, slept,
                   firstDone, trace, now, disk, counter, idx, video_uris, video_paths>>

\* poll_operation after the loop, `return operation.result`.
PollReturn ==
    /\ pc = "poll" /\ ~LoopContinues(operation)
    /\ ~HasError(operation)
    /\ result' = ResultOf(operation, config)
    /\ pc' = IF node \in ProcessNodes THEN "alloc" ELSE "items"
    /\ UNCHANGED <<disk0, environ, peer, node, args, config, source, operation, fetches, sleeps, slept, firstDone,
                   trace, now, disk, counter, idx, video_uris, video_paths, failure, cause>>

\* process_genai_results, before the loop: folder_paths.get_save_image_path.
AllocateCounter ==
    /\ pc = "alloc"
    /\ counter' = get_save_image_path(disk, filename_prefix(node))
    /\ trace' = trace \o <<"get_save_image_path">>
    /\ pc' = "items"
    /\ peer' = [peer EXCEPT !.overlap = @ \/ PeerActive]
    /\ UNCHANGED <<disk0, environ, node, args, config, source, operation, result, fetches, sleeps, slept,
                   firstDone, now, disk, idx, video_uris, video_paths, failure, cause>>

\* process_genai_results, one turn of the loop: download item idx to its file.
\* blob.download_to_filename may fail (the object store, the network, the disk).
ProcessItem ==
    /\ pc = "items" /\ node \in ProcessNodes /\ idx < Len(result)
    /\ LET file == VideoFile(filename_prefix(node), counter, idx)
           d    == download_from_gcs(result[idx + 1].uri, FALSE, file, now)
       IN /\ trace' = trace \o d.calls
          /\ IF d.ok
             THEN \/ /\ disk' = (d.path :> d.content) @@ disk
                     /\ video_paths' = Append(video_paths, d.path)
                     /\ idx' = idx + 1
                     /\ UNCHANGED <<pc, failure, cause>>
                  \/ /\ Raise(DownloadFailure, Wrapped(DownloadFailure))
                     /\ disk' \in FailedWrite(disk, d.path)
                     /\ UNCHANGED <<video_paths, idx>>
             ELSE /\ Raise(d.failure, Wrapped(d.failure))
                  /\ UNCHANGED <<disk, video_paths, idx>>
    /\ UNCHANGED <<disk0, environ, peer, node, args, config, source, operation, result, fetches, sleeps, slept,
                   firstDone, now, counter, video_uris>>

\* api image-to-video, one turn of the loop with output_format "gcs_uri".
ApiItemUri ==
    /\ pc = "items" /\ node \in ApiNodes /\ idx < Len(result)
    /\ IsRemoteTarget(args.output_format)
    /\ video_uris' = Append(video_uris, result[idx + 1].uri)
    /\ idx' = idx + 1
    /\ UNCHANGED <<disk0, environ, peer, node, args, pc, config, source, operation, result, fetches, sleeps, slept,
                   firstDone, trace, now, disk, counter, video_paths, failure, cause>>

\* api image-to-video, one turn of the loop with a local file:
\* utils.save_video_locally(video_bytes, file_seed).  The clock may have moved
\* to the next second since the last call, and the write may fail.
ApiItemLocal ==
    /\ pc = "items" /\ node \in ApiNodes /\ idx < Len(result)
    /\ ~IsRemoteTarget(args.output_format)
    /\ \E dt \in 0..1 :
         /\ now' = now + dt
         /\ LET file == LocalVideoFile(now + dt, FileSeed(args.seed, idx))
            IN \/ /\ disk' = (file :> result[idx + 1].video_bytes) @@ disk
                  /\ video_paths' = Append(video_paths, file)
                  /\ idx' = idx + 1
                  /\ UNCHANGED <<pc, failure, cause>>
               \/ /\ Raise(WriteFailure, Wrapped(WriteFailure))
                  /\ disk' \in FailedWrite(disk, file)
                  /\ UNCHANGED <<video_paths, idx>>
    /\ trace' = trace \o <<"makedirs", "write">>
    /\ UNCHANGED <<disk0, environ, peer, node, args, config, source, operation, result, fetches, sleeps,
                   slept, firstDone, counter, video_uris>>

\* execute returns its outputs.
Return ==
    /\ pc = "items" /\ idx = Len(result)
    /\ pc' = "returned"
    /\ UNCHANGED <<disk0, environ, peer, node, args, config, source, operation, result, fetches, sleeps, slept,
                   firstDone, trace, now, disk, counter, idx, video_uris, video_paths, failure, cause>>

\* ------------------------------------------------- direct download paths
\* utils.download_from_gcs(gcs_uri, output_path_or_seed) called on its own.
DownloadFromGcs ==
    /\ pc = "start" /\ node = "download_from_gcs"
    /\ LET d == download_from_gcs(args.uri, args.isSeed,
                                  IF args.isSeed THEN args.seed ELSE AbsPath, now)
       IN /\ trace' = trace \o d.calls
          /\ IF d.ok
             THEN /\ disk' = (d.path :> d.content) @@ disk
                  /\ video_paths' = <<d.path>>
                  /\ pc' = "returned"
                  /\ UNCHANGED <<failure, cause>>
             ELSE /\ Raise(d.failure, d.failure)
                  /\ UNCHANGED <<disk, video_paths>>
    /\ UNCHANGED <<disk0, environ, peer, node, args, config, source, operation, result, fetches, sleeps, slept,
                   firstDone, now, counter, idx, video_uris>>

\* LoadVideoGCS.load_video(video_uri).
LoadVideo ==
    /\ pc = "start" /\ node = "load_video"
    /\ LET d == load_video(args.uri)
       IN /\ trace' = trace \o d.calls
          /\ IF d.ok
             THEN /\ disk' = (d.path :> d.content) @@ disk
                  /\ video_paths' = <<d.path>>
                  /\ pc' = "returned"
                  /\ UNCHANGED <<failure, cause>>
             ELSE /\ Raise(d.failure, d.failure)
                  /\ UNCHANGED <<disk, video_paths>>
    /\ UNCHANGED <<disk0, environ, peer, node, args, config, source, operation, result, fetches, sleeps, slept,
                   firstDone, now, counter, idx, video_uris>>

\* ---------------------------------------------------------- text to speech
\* (the empty-audio check made after the output directory is made and listed)
SynthesisCallsAfterScan == <<"texttospeech.Client", "synthesize_speech", "makedirs", "listdir">>

\* The calls of generate_audio up to `if not response.audio_content: raise`.
SynthesisCalls == <<"texttospeech.Client", "synthesize_speech">>

\* Chirp_TTS_Node.generate_audio when synthesize_speech returns no audio.
TtsEmptyAudio ==
    /\ pc = "start" /\ node \in TtsNodes
    /\ Len(args.audio) = 0
    /\ environ' = args.credentials_path
    /\ trace' = trace \o SynthesisCalls
    /\ Raise(EmptyAudio, EmptyAudio)
    /\ UNCHANGED <<disk0, peer, node, args, config, source, operation, result, fetches, sleeps, slept,
                   firstDone, now, disk, counter, idx, video_uris, video_paths>>

\* Chirp_TTS_Node.generate_audio when synthesize_speech returns audio, up to
\* next_number: the environment variable is set, the speech synthesized, the
\* directory made and listed, and the next number taken.
TtsScan ==
    /\ pc = "start" /\ node \in TtsNodes
    /\ Len(args.audio) # 0
    /\ environ' = args.credentials_path
    /\ trace' = trace \o <<"texttospeech.Client", "synthesize_speech", "makedirs", "listdir">>
    /\ counter' = next_number(disk)
    /\ pc' = "write"
    /\ peer' = [peer EXCEPT !.overlap = @ \/ PeerActive]
    /\ UNCHANGED <<disk0, node, args, config, source, operation, result, fetches, sleeps, slept,
                   firstDone, now, disk, idx, video_uris, video_paths, failure, cause>>

\* Chirp_TTS_Node.generate_audio, the rest: the file chirp_output_<n>.mp3 is
\* written and its path returned.
TtsWrite ==
    /\ pc = "write"
    /\ trace' = trace \o <<"write">>
    /\ LET file == ChirpFile(Str(counter))
       IN /\ disk' = (file :> args.audio) @@ disk
          /\ video_paths' = <<file>>
    /\ pc' = "returned"
    /\ UNCHANGED <<disk0, environ, peer, node, args, config, source, operation, result, fetches, sleeps,
                   slept, firstDone, now, counter, idx, video_uris, failure, cause>>

\* ------------------------------------------ a second materialization
\* The same materializer code run by a second invocation of the same node on
\* the same output directory, at the same time as the main one: its scan
\* (get_save_image_path, or listdir and next_number) and its writes are steps
\* of their own, as they are in the main invocation.
ScanCounter(n, d) ==
    IF n \in TtsNodes THEN next_number(d) ELSE get_save_image_path(d, filename_prefix(n))

MaterialFile(n, c, i) ==
    IF n \in TtsNodes THEN ChirpFile(Str(c)) ELSE VideoFile(filename_prefix(n), c, i)

PeerContent(i) == <<"peer", Digit(i)>>

Peers(n) ==
    {[pc |-> "alloc", counter |-> 0, idx |-> 0, n |-> k, paths |-> <<>>, overlap |-> FALSE] :
        k \in 1..(IF n \in TtsNodes THEN 1 ELSE MaxPeerVideos)}

PeerAllocate ==
    /\ peer.pc = "alloc"
    /\ peer' = [peer EXCEPT !.pc = "items", !.counter = ScanCounter(node, disk),
                            !.overlap = @ \/ MainActive]
    /\ UNCHANGED <<disk0, environ, node, args, pc, config, source, operation, result, fetches, sleeps,
                   slept, firstDone, trace, now, disk, counter, idx, video_uris, video_paths,
                   failure, cause>>

PeerItem ==
    /\ peer.pc = "items" /\ peer.idx < peer.n
    /\ LET file == MaterialFile(node, peer.counter, peer.idx)
       IN /\ disk' = (file :> PeerContent(peer.idx)) @@ disk
          /\ peer' = [peer EXCEPT !.idx = @ + 1, !.paths = Append(@, file)]
    /\ UNCHANGED <<disk0, environ, node, args, pc, config, source, operation, result, fetches, sleeps,
                   slept, firstDone, trace, now, counter, idx, video_uris, video_paths,
                   failure, cause>>

PeerReturn ==
    /\ peer.pc = "items" /\ peer.idx = peer.n
    /\ peer' = [peer EXCEPT !.pc = "returned"]
    /\ UNCHANGED <<disk0, environ, node, args, pc, config, source, operation, result, fetches, sleeps,
                   slept, firstDone, trace, now, disk, counter, idx, video_uris, video_paths,
                   failure, cause>>

\* ------------------------------------------------------- specifications
Next ==
    \/ SubmitInvalid
    \/ SubmitRejected
    \/ SubmitAccepted
    \/ PollSleep
    \/ PollFetch
    \/ PollRaise
    \/ PollReturn
    \/ AllocateCounter
    \/ ProcessItem
    \/ ApiItemUri
    \/ ApiItemLocal
    \/ Return
    \/ DownloadFromGcs
    \/ LoadVideo
    \/ TtsEmptyAudio
    \/ TtsScan
    \/ TtsWrite

Spec == Init /\ [][Next]_vars

\* poll_operation on its own, under the text-to-video node: the submission and
\* the poll loop up to its return or its raise.  The invocation runs on a
\* thread of its own and is never suspended for good: a step poll_operation
\* can take, it takes.
PollInit == Init /\ node = "t2v"

PollNext ==
    \/ SubmitAccepted
    \/ PollSleep
    \/ PollFetch
    \/ PollRaise
    \/ PollReturn

PollSpec == PollInit /\ [][PollNext]_vars /\ WF_vars(PollNext)

\* Two invocations of one node (text-to-video, or text-to-speech) that share
\* the output directory: the main one from its call on, the second one from
\* the start of its materialization.  The host may run them in any order.
RaceNodes == {"t2v"} \cup TtsNodes

RaceInit == InitMain /\ node \in RaceNodes /\ peer \in Peers(node)

RaceNext ==
    \/ SubmitRejected
    \/ SubmitAccepted
    \/ PollSleep
    \/ PollFetch
    \/ PollRaise
    \/ PollReturn
    \/ AllocateCounter
    \/ ProcessItem
    \/ Return
    \/ TtsEmptyAudio
    \/ TtsScan
    \/ TtsWrite
    \/ PeerAllocate
    \/ PeerItem
    \/ PeerReturn

RaceSpec == RaceInit /\ [][RaceNext]_vars

\* ---------------------------------------------------------------- claims
PollCalls == {"sleep", "operations.get"}

\* The calls poll_operation made, as the trace shows them: they follow the two
\* calls of the submission.
PollTrace(n) == [i \in 1..(2 * n) |-> IF i % 2 = 1 THEN "sleep" ELSE "operations.get"]

\* C1: when the handle first reports done on the N-th status fetch (N = 0: the
\* handle generate_videos returned), poll_operation fetches exactly N times,
\* sleeps the 5 seconds exactly once right before each fetch, and polls no more.
C1_ExactlyNFetches ==
    firstDone \in 0..MaxPolls =>
        /\ pc # "fetch"
        /\ fetches = firstDone
        /\ sleeps = firstDone
        /\ slept = 5 * firstDone
        /\ Len(trace) >= 2 + 2 * firstDone
        /\ SubSeq(trace, 3, 2 + 2 * firstDone) = PollTrace(firstDone)
        /\ \A i \in (3 + 2 * firstDone)..Len(trace) : trace[i] \notin PollCalls

C1_Witness == firstDone = 2 /\ fetches = 2 /\ pc = "returned"

MaterializerCalls ==
    {"get_save_image_path", "storage.Client", "makedirs", "download_to_filename", "write"}

\* C2: a finished operation that carries an error makes poll_operation raise a
\* failure whose message carries that error, and nothing of the materializer
\* runs in the invocation: no counter is taken, nothing is downloaded, nothing
\* is written, nothing is returned.
C2_ErrorSkipsMaterializer ==
    (node \in VideoNodes /\ operation.done /\ operation.error # NoError /\ pc # "poll") =>
        /\ pc = "raised"
        /\ failure[1] = "RuntimeError"
        /\ operation.error \in Range(failure)
        /\ Range(trace) \cap MaterializerCalls = {}
        /\ disk = disk0
        /\ counter = 0
        /\ video_paths = <<>> /\ video_uris = <<>>

C2_Witness ==
    /\ node \in VideoNodes /\ pc = "raised" /\ fetches >= 1
    /\ operation.done /\ operation.error \in ErrorInfo

InLoop == pc \in {"poll", "fetch"}

\* C3: poll_operation leaves its loop only on a handle that reports done (no
\* timeout, no attempt cap: it neither returns nor raises before), and as long
\* as the handle is not done it goes on to sleep, to fetch and to test again.
C3_NoTimeout ==
    /\ [][(InLoop /\ ~InLoop') => operation.done]_vars
    /\ (pc = "poll" /\ ~operation.done) ~> (pc = "fetch")
    /\ (pc = "fetch") ~> (pc = "poll")

C3_Witness == pc = "poll" /\ ~operation.done /\ fetches = Saturated /\ sleeps = Saturated

HasNeither(slot) == ~slot.bytes /\ slot.ref = ""

\* A required source-media slot of the node has neither inline media nor a
\* reference.
MissingSource == \/ node \in {"i2v", "api_i2v", "flf", "ref", "ext", "v2v"} /\ HasNeither(args.s1)
                 \/ node = "flf" /\ HasNeither(args.s2)

ValidationMessages ==
    {"Either an image or an image GCS URI must be provided.",
     "Either both images or both GCS URIs must be provided.",
     "A reference image (local upload or GCS URI) must be provided.",
     "Either an input video path or an input video GCS URI must be provided."}

\* C4: a node that requires source media and is given neither inline media nor
\* a reference for a required slot fails with the validation error, and has
\* called generate_videos zero times, fetched no status and downloaded nothing.
C4_MissingSourceNoCalls ==
    (MissingSource /\ pc # "start") =>
        /\ pc = "raised"
        /\ Range(failure) \cap ValidationMessages # {}
        /\ Range(trace) \cap ({"generate_videos"} \cup PollCalls \cup MaterializerCalls) = {}
        /\ config = <<>> /\ fetches = 0 /\ disk = disk0

C4_Witness == node = "flf" /\ HasNeither(args.s1) /\ args.s2.bytes /\ pc = "raised"

Unchanged(d0, d) == \A nm \in DOMAIN d0 : nm \in DOMAIN d /\ d[nm] = d0[nm]

\* C5: the counter taken for the new files is greater than every counter the
\* output directory held for the prefix when the node was invoked (the video
\* files <prefix>_<counter>_<index>.mp4 and the files chirp_output_<n>.mp3),
\* and no file the directory held then is overwritten or removed.
C5_CounterAboveExisting ==
    /\ (node \in ProcessNodes /\ pc \in {"items", "returned"}) =>
           \A c \in ExistingCounters(disk0, filename_prefix(node)) : counter > c
    /\ (node \in TtsNodes /\ pc = "returned") =>
           \A nm \in DOMAIN disk0 :
               (nm[Len(nm)] = ".mp3" /\ IntOk(ChirpMiddle(nm))) => counter > IntVal(ChirpMiddle(nm))
    /\ (node \in ProcessNodes \cup TtsNodes) => Unchanged(disk0, disk)

C5_Witness ==
    /\ node \in TtsNodes /\ pc = "returned" /\ counter = 8
    /\ ChirpFile(<<"0", "7">>) \in DOMAIN disk0 /\ ChirpFile(<<"1">>) \in DOMAIN disk0
    /\ disk[ChirpFile(<<"8">>)] = args.audio

\* C6: the k inline-byte items of a result saved locally give k pairwise
\* distinct paths, and the file at the i-th path holds the bytes of the i-th
\* item, for every seed and also when the writes fall in one clock second.
C6_RoundTrip ==
    (node \in ApiNodes /\ args.output_format = "local_file" /\ pc = "returned") =>
        /\ Len(video_paths) = Len(result)
        /\ \A i, j \in 1..Len(video_paths) : i # j => video_paths[i] # video_paths[j]
        /\ \A i \in 1..Len(video_paths) : disk[video_paths[i]] = result[i].video_bytes

\* The seed field of a file name video_<timestamp>_<seed>.mp4.
SeedOfFile(nm) ==
    LET rest == SubSeq(nm, 3, Len(nm) - 1)
    IN SubSeq(rest, RunLen(rest, {"_"}) + 2, Len(rest))

\* C7: with a base seed s >= 0 the items are saved in result order, the file
\* name of the item with index i carries the number s + i, and the
\* configuration sent to the backend carries s.
C7_SeedOffset ==
    (node \in ApiNodes /\ args.output_format = "local_file" /\ args.seed >= 0) =>
        /\ Len(video_paths) = idx
        /\ \A i \in 1..Len(video_paths) :
              /\ IntOk(SeedOfFile(video_paths[i]))
              /\ IntVal(SeedOfFile(video_paths[i])) = args.seed + (i - 1)
              /\ disk[video_paths[i]] = ItemBytes(i - 1)
        /\ "generate_videos" \in Range(trace) => config["seed"] = args.seed

C7_Witness ==
    /\ node \in ApiNodes /\ args.seed = 7 /\ pc = "returned" /\ Len(video_paths) = 3
    /\ SeedOfFile(video_paths[3]) = <<"9">>

\* C8: with the remote-URI output target every item's URI is returned as it
\* is, in result order, and nothing is downloaded and no file written.
C8_RemoteUriUnchanged ==
    (node \in ApiNodes /\ args.output_format = "gcs_uri") =>
        /\ Len(video_uris) = idx
        /\ \A i \in 1..Len(video_uris) : video_uris[i] = ItemUri(i - 1)
        /\ pc = "returned" => Len(video_uris) = Len(result)
        /\ Range(trace) \cap MaterializerCalls = {}
        /\ disk = disk0 /\ video_paths = <<>>

C8_Witness ==
    /\ node \in ApiNodes /\ args.output_format = "gcs_uri" /\ pc = "returned"
    /\ video_uris = <<ItemUri(0), ItemUri(1)>>

\* gs://<bucket>/<path>: a non-empty bucket without a slash, a slash, and a
\* non-empty path.
WellFormedUri(uri) ==
    /\ StartsWithGs(uri)
    /\ \E i \in 5..(Len(uri) - 1) : uri[i] = "/" /\ \A j \in 4..(i - 1) : uri[j] # "/"

\* C9 as stated: a malformed storage URI fails with the validation error before
\* any storage client is created, any directory made or any download started.
C9_MalformedBeforeClient ==
    (node \in StorageNodes /\ ~WellFormedUri(args.uri) /\ pc # "start") =>
        /\ pc = "raised" /\ failure[1] = "ValueError"
        /\ trace = <<>>
        /\ disk = disk0

\* C9 as amended: a malformed storage URI fails with the validation error before
\* any directory is made, before any download and before a storage client is
\* used; load_video has made no client by then, download_from_gcs has made its
\* client (and nothing else).
C9_MalformedBeforeUse ==
    (node \in StorageNodes /\ ~WellFormedUri(args.uri) /\ pc # "start") =>
        /\ pc = "raised" /\ failure[1] = "ValueError"
        /\ trace = IF node = "load_video" THEN <<>> ELSE <<"storage.Client">>
        /\ disk = disk0 /\ video_paths = <<>>

C9_Witness ==
    /\ node = "download_from_gcs" /\ args.uri = <<"gs:", "/", "/", "a">>
    /\ pc = "raised" /\ trace = <<"storage.Client">>

\* C10: the configuration sent with generate_videos has no seed when the seed
\* given is negative, and has exactly the seed given when it is not.
C10_SeedOnSubmission ==
    (node \in VideoNodes /\ "generate_videos" \in Range(trace)) =>
        /\ args.seed < 0 => "seed" \notin DOMAIN config
        /\ args.seed >= 0 => ("seed" \in DOMAIN config /\ config["seed"] = args.seed)

C10_Witness ==
    /\ "generate_videos" \in Range(trace) /\ args.seed = 0
    /\ "seed" \in DOMAIN config /\ node = "ref"

\* C11: an invocation sends generate_videos at most once, whatever happens to
\* the submission, the polling or the materialization afterwards; a video node
\* that is past its submission step has sent it exactly once unless it failed
\* with a local validation error, and then it has sent none.  The other nodes
\* send none.
C11_OneSubmission ==
    /\ Count(trace, "generate_videos") <= 1
    /\ (node \in VideoNodes /\ pc # "start") =>
           Count(trace, "generate_videos") =
               (IF Range(failure) \cap ValidationMessages = {} THEN 1 ELSE 0)
    /\ node \notin VideoNodes => Count(trace, "generate_videos") = 0

C11_Witness ==
    /\ node \in ProcessNodes /\ pc = "raised" /\ fetches = 2
    /\ "storage.Client" \in Range(trace)
    /\ Count(trace, "generate_videos") = 1

Before(s, a, i) == \E j \in 1..(i - 1) : s[j] = a

\* C12: in a video node every sleep and status fetch comes after the
\* submission; every call of the materializer comes after the submission and
\* after the polling, on a handle that reports done without an error; the node
\* returns only with one output per generated item, or fails with a failure;
\* and once it has returned or failed it does nothing more.
C12_PhasesOrdered ==
    /\ [](node \in VideoNodes =>
            /\ \A i \in 1..Len(trace) :
                  /\ trace[i] \in PollCalls => Before(trace, "generate_videos", i)
                  /\ trace[i] \in MaterializerCalls =>
                        /\ Before(trace, "generate_videos", i)
                        /\ \A k \in i..Len(trace) : trace[k] \notin PollCalls \cup {"generate_videos"}
            /\ (Range(trace) \cap MaterializerCalls # {} \/ video_uris # <<>> \/ video_paths # <<>>) =>
                  operation.done /\ operation.error = NoError /\ firstDone >= 0 /\ pc # "fetch"
            /\ pc = "returned" =>
                  /\ operation.done /\ operation.error = NoError
                  /\ Len(result) = operation.videos
                  /\ Len(video_uris) + Len(video_paths) = Len(result)
            /\ pc = "raised" => failure # <<>>)
    /\ [][pc \notin {"returned", "raised"}]_vars

C12_Witness ==
    /\ node \in ProcessNodes /\ pc = "returned" /\ fetches = 1
    /\ Len(video_paths) = 2
    /\ trace[Len(trace)] = "download_to_filename"

\* The failure that left the invocation ends with the message of the exception
\* first raised.
CarriesMessage ==
    /\ Len(failure) >= Len(cause)
    /\ SubSeq(failure, Len(failure) - Len(cause) + 2, Len(failure)) = Tail(cause)

IsWrapped == failure[1] = "RuntimeError" /\ failure[2] = "Video generation failed: "

\* C13 as stated: every failure of a video node (validation, rejected
\* submission, failed operation, storage error) leaves it as a failure of one
\* and the same kind, the RuntimeError "Video generation failed: <message>",
\* the missing reference image of the video-with-reference node included.
C13_SingleKind ==
    (node \in VideoNodes /\ pc = "raised") => (IsWrapped /\ CarriesMessage)

\* C13 as amended: an invocation fails exactly when an exception was raised in
\* it; the failure ends with that exception's message; in a video node it is
\* the RuntimeError "Video generation failed: <message>", except that the
\* video-with-reference node lets its missing-reference-image ValueError out
\* as it is; the other nodes let the exception out as it is.  Nothing is
\* retried (one submission, no download after a failed one), and a node that
\* returns has met no error: its source media were given, its operation
\* carries no error and its files are whole.
C13_FailureSurfaced ==
    /\ (pc = "raised") <=> (cause # <<>>)
    /\ (pc = "raised") <=> (failure # <<>>)
    /\ pc = "raised" =>
         /\ CarriesMessage
         /\ IF node \in VideoNodes /\ ~(node = "ref" /\ cause[2] \in ValidationMessages)
            THEN IsWrapped
            ELSE failure = cause
    /\ Count(trace, "generate_videos") <= 1
    /\ node \in VideoNodes =>
         Count(trace, "download_to_filename") + Count(trace, "write")
             = Len(video_paths) + (IF cause \in {DownloadFailure, WriteFailure} THEN 1 ELSE 0)
    /\ (node \in VideoNodes /\ pc = "returned") =>
         /\ ~MissingSource
         /\ operation.error = NoError
         /\ \A i \in 1..Len(video_paths) : disk[video_paths[i]] # Partial

C13_Witness ==
    /\ node = "ref" /\ pc = "raised" /\ Len(video_paths) = 1
    /\ cause = DownloadFailure
    /\ failure = <<"RuntimeError", "Video generation failed: ", "download interrupted">>

\* C14: the step in which persisting an item fails leaves every file written
\* for the items before it on disk with the content it had, removes no file,
\* and ends the invocation as a failure: the partial list of paths is not
\* returned and no later item is tried.
C14_PartialBatchKept ==
    [][(node \in VideoNodes /\ pc = "items" /\ pc' = "raised") =>
          /\ \A i \in 1..Len(video_paths) :
                /\ video_paths[i] \in DOMAIN disk'
                /\ disk'[video_paths[i]] = disk[video_paths[i]]
          /\ \A nm \in DOMAIN disk : nm \in DOMAIN disk'
          /\ video_paths' = video_paths /\ idx' = idx
          /\ failure' # <<>>]_vars

\* A materialization has taken its counter and written nothing yet.
MainScannedOnly == (node \in ProcessNodes /\ pc = "items" /\ idx = 0) \/ pc = "write"

PeerScannedOnly == peer.pc = "items" /\ peer.idx = 0

Min(a, b) == IF a <= b THEN a ELSE b

\* C15: two materializations on one output directory with one prefix.  When
\* both have scanned before either has written, they hold the same counter;
\* holding the same counter, they write the same paths item by item; and when
\* the two did not overlap (the later one scanned after the earlier one had
\* written all its files), no path is written by both.
C15_ScanThenWrite ==
    /\ (MainScannedOnly /\ PeerScannedOnly) => counter = peer.counter
    /\ (counter = peer.counter /\ counter > 0) =>
           \A i \in 1..Min(Len(video_paths), Len(peer.paths)) : video_paths[i] = peer.paths[i]
    /\ ~peer.overlap => Range(video_paths) \cap Range(peer.paths) = {}

C15_Witness ==
    /\ node \in ProcessNodes /\ pc = "returned" /\ peer.pc = "returned" /\ peer.overlap
    /\ counter = peer.counter
    /\ Len(video_paths) = 2 /\ peer.paths = video_paths
    /\ disk[video_paths[1]] = PeerContent(0)
    /\ disk[video_paths[2]] = Blob(<<"out">>, <<"sample_", "1", ".mp4">>)

\* C16: no invocation of any node writes the process-wide credentials or the
\* process environment: GOOGLE_APPLICATION_CREDENTIALS holds what the process
\* was started with, in every state of every invocation.
C16_CredentialsReadOnly == environ \in AmbientCredentials

\* C17: the Example class (the node whose execute is run with the prefix
\* "vertex-v2v") shows the metadata its test asserts: return types ("IMAGE",),
\* function "test" and category "Example".
C17_ExampleMetadata ==
    node = "v2v" =>
        /\ NodeClassOf(node) = Example
        /\ RETURN_TYPES(NodeClassOf(node)) = <<"IMAGE">>
        /\ FUNCTION(NodeClassOf(node)) = "test"
        /\ CATEGORY(NodeClassOf(node)) = "Example"

\* C18: whichever node class is invoked, no other class declares its node_id
\* (the node_id values are pairwise distinct), every key of
\* NODE_CLASS_MAPPINGS is the node_id of exactly one class, and the two
\* mappings have the same keys.
C18_NodeNamesUnique ==
    node \in VideoNodes =>
        /\ \A c \in SchemaClasses : c.node_id = NodeClassOf(node).node_id => c = NodeClassOf(node)
        /\ \A k \in DOMAIN NODE_CLASS_MAPPINGS :
              Cardinality({c \in SchemaClasses : c.node_id = k}) = 1
        /\ DOMAIN NODE_CLASS_MAPPINGS = DOMAIN NODE_DISPLAY_NAME_MAPPINGS

\* C19 as stated: poll_operation sleeps and fetches only after a handle that
\* reports neither completion nor an error: a handle that carries an error
\* ends the polling at once.
C19_StopsOnError == pc = "fetch" => (~operation.done /\ operation.error = NoError)

\* C19 as amended: poll_operation stops polling at the first handle (initial
\* or fetched) that reports done, and on nothing else.  A step from the test of
\* a handle that is not done is the sleep before the next fetch, whether or
\* not the handle carries an error; it sleeps and fetches only after a handle
\* that is not done; after the first done handle it fetches no more; a done
\* handle with an error is propagated as the failure, and one without has its
\* result returned.
C19_StopsOnDone ==
    /\ [](node \in VideoNodes =>
            /\ pc = "fetch" => ~operation.done
            /\ firstDone \in 0..MaxPolls => (fetches = firstDone /\ sleeps = firstDone)
            /\ (operation.done /\ pc # "poll") =>
                  IF operation.error # NoError
                  THEN pc = "raised" /\ cause = OperationFailure(operation)
                  ELSE pc # "fetch" /\ result = ResultOf(operation, config))
    /\ [][(pc = "poll" /\ ~operation.done) => pc' = "fetch"]_vars
    /\ [][(pc = "poll" /\ operation.done) =>
            pc' = (IF operation.error # NoError THEN "raised"
                   ELSE IF node \in ProcessNodes THEN "alloc" ELSE "items")]_vars

C19_Witness ==
    /\ pc = "fetch" /\ ~operation.done /\ operation.error \in ErrorInfo
    /\ fetches = 1 /\ sleeps = 2

\* C20: the handle poll_operation holds is always a handle as the backend
\* gave it (no field of it is assigned locally); it changes only by being
\* replaced, by the handle the submission returns or by the handle a status
\* fetch returns; and what poll_operation returns is the result of the handle
\* it holds then, the last one fetched, which is done and carries no error.
C20_HandleLifecycle ==
    /\ [](operation \in Handles)
    /\ [][operation' # operation => (pc = "start" \/ pc = "fetch")]_vars
    /\ [][(pc = "poll" /\ pc' \in {"alloc", "items"}) =>
            /\ operation.done /\ operation.error = NoError
            /\ operation' = operation
            /\ result' = ResultOf(operation, config)]_vars
    /\ []((node \in VideoNodes /\ pc \in {"alloc", "items", "returned"}) =>
            /\ operation.done /\ operation.error = NoError
            /\ operation.videos >= 1 /\ Len(result) = operation.videos
            /\ \A i \in 1..Len(result) : result[i] = GeneratedVideo(i - 1, config))

C20_Witness ==
    /\ node \in VideoNodes /\ pc = "returned" /\ fetches = 2 /\ firstDone = 2
    /\ operation.videos = 3 /\ Len(result) = 3


HasBoth(slot) == slot.bytes /\ slot.ref # ""

HasOne(slot) == slot.bytes \/ slot.ref # ""

ImageNodes == {"i2v", "api_i2v", "flf", "ref"}

\* C21 as stated: whenever a source-image slot is given both inline bytes and
\* a storage URI (and no required slot is left empty), the request is
\* submitted and carries the inline bytes for that slot.
C21_BytesPreferredPerSlot ==
    (node \in ImageNodes /\ pc # "start" /\ HasOne(args.s1) /\ (node = "flf" => HasOne(args.s2))) =>
        /\ HasBoth(args.s1) => ("generate_videos" \in Range(trace) /\ source = "image_bytes")
        /\ (node = "flf" /\ HasBoth(args.s2)) =>
              ("generate_videos" \in Range(trace) /\ config["last_frame"] = "image_bytes")

\* C21 as amended: a request that supplies both representations is never
\* rejected for it.  In the image-to-video and video-with-reference nodes the
\* request carries the inline bytes and ignores the URI.  In the
\* first/last-frame node the two frames go together: both as inline bytes when
\* both frames have inline bytes (whatever URIs come with them), and both as
\* URIs when a frame has both representations and the other has only a URI.
C21_BytesPreferred ==
    (node \in ImageNodes /\ pc # "start" /\ HasOne(args.s1) /\ (node = "flf" => HasOne(args.s2))
        /\ (HasBoth(args.s1) \/ (node = "flf" /\ HasBoth(args.s2)))) =>
        /\ "generate_videos" \in Range(trace)
        /\ Range(failure) \cap ValidationMessages = {}
        /\ node # "flf" => source = "image_bytes"
        /\ node = "flf" =>
              /\ source = (IF args.s1.bytes /\ args.s2.bytes THEN "image_bytes" ELSE "gcs_uri")
              /\ config["last_frame"] = source

C21_Witness ==
    /\ node = "flf" /\ HasBoth(args.s1) /\ HasBoth(args.s2) /\ pc = "returned"
    /\ source = "image_bytes" /\ config["last_frame"] = "image_bytes"


SourceNodes == {"i2v", "api_i2v", "flf", "ref", "ext", "v2v"}

RejectedLocally ==
    /\ pc = "raised"
    /\ Range(failure) \cap ValidationMessages # {}
    /\ "generate_videos" \notin Range(trace)

Submitted == "generate_videos" \in Range(trace)

\* A slot with no representation at all: no inline media and no URI (for the
\* extend-video node, whose only string input is the path: no video object and
\* neither a readable file nor a URI as the path).
SlotEmpty(n, slot) ==
    IF n \in {"ext", "v2v"} THEN ~slot.bytes /\ slot.ref \notin {"file", "gs"}
    ELSE HasNeither(slot)

LocalTarget == node \in ProcessNodes \/ (node \in ApiNodes /\ ~IsRemoteTarget(args.output_format))

\* What ends up on disk for a generated item: its inline bytes, or the object
\* its URI names.
ItemContent(item) ==
    IF item.video_bytes # NoBytes THEN item.video_bytes
    ELSE Blob(GcsMatch(item.uri).bucket, GcsMatch(item.uri).blob)

\* C23: with the local-file target every item of a completed result is
\* persisted whichever representation it holds (inline bytes written, URI
\* downloaded): no invocation fails for the representation of an item, and on
\* return there is one local path per generated item, in result order.
C23_EveryItemPersisted ==
    (node \in VideoNodes /\ LocalTarget /\ result # <<>>) =>
        /\ ~(pc = "raised" /\ cause[1] = "TypeError")
        /\ pc = "returned" =>
              /\ Len(video_paths) = Len(result)
              /\ \A i \in 1..Len(result) :
                    video_paths[i] \in DOMAIN disk => disk[video_paths[i]] = ItemContent(result[i])


\* The numbers in use for the invocation's prefix on disk d.
NumbersInUse(d) ==
    IF node \in TtsNodes THEN numbers(d) ELSE ExistingCounters(d, filename_prefix(node))

Allocated ==
    \/ node \in ProcessNodes /\ "get_save_image_path" \in Range(trace)
    \/ node \in TtsNodes /\ "listdir" \in Range(trace)

FirstUnused(S) ==
    CHOOSE k \in 1..(Cardinality(S) + 1) :
        k \notin S /\ \A j \in 1..(k - 1) : j \in S

\* The files the invocation has written so far are the items of one batch:
\* one counter, indices 0, 1, ... in order.
OneCounterPerBatch ==
    node \in ProcessNodes =>
        \A i \in 1..Len(video_paths) :
            video_paths[i] = VideoFile(filename_prefix(node), counter, i - 1)

\* C24 as stated: the counter allocated for a materialization is the first
\* unused positive integer for the prefix (names without a parsable number are
\* ignored), and all items of one batch share the counter and differ by index.
C24_FirstUnusedCounter ==
    Allocated => (counter = FirstUnused(NumbersInUse(disk0)) /\ OneCounterPerBatch)

\* C24 as amended: the counter allocated is one more than the largest number
\* carried by an existing file name of the prefix pattern, and 1 when no such
\* name carries a parsable number (those names are ignored); it is larger than
\* every number in use, a scan after the materialization has written a file
\* yields a strictly larger counter, and all items of one batch share the
\* counter and differ by index.
C24_NextAfterLargest ==
    Allocated =>
        /\ counter = (IF NumbersInUse(disk0) = {} THEN 1 ELSE Max(NumbersInUse(disk0)) + 1)
        /\ \A k \in NumbersInUse(disk0) : k < counter
        /\ OneCounterPerBatch
        /\ (pc = "returned" /\ (node \in TtsNodes \/ video_paths # <<>>)) =>
              /\ counter \in NumbersInUse(disk)
              /\ (IF node \in TtsNodes THEN next_number(disk)
                   ELSE get_save_image_path(disk, filename_prefix(node))) > counter

\* A gap below the largest number in use is not filled.
C24_Witness ==
    /\ node \in TtsNodes /\ pc = "returned"
    /\ numbers(disk0) = {2, 7} /\ counter = 8
    /\ ChirpFile(<<"x">>) \in DOMAIN disk0


SendsOutputUri == "output_gcs_uri" \in DOMAIN config

WantsRemote == node \in ApiNodes /\ args.output_format = "gcs_uri"

\* Exactly one of the two returned lists is non-empty, with one entry per item.
OneListPerResult ==
    (pc = "returned" /\ Len(result) >= 1) =>
        /\ (video_uris = <<>>) # (video_paths = <<>>)
        /\ Len(video_uris) + Len(video_paths) = Len(result)

\* C25 as stated: an output storage URI is part of the submitted configuration
\* if and only if the output target is the remote URI; and a completed result
\* with at least one item comes back as exactly one non-empty list (remote
\* URIs or local paths) with one entry per generated item.
C25_OneVariantActive ==
    (node \in VideoNodes /\ Submitted) =>
        /\ SendsOutputUri <=> WantsRemote
        /\ OneListPerResult

\* C25 as amended: in the api image-to-video node an output storage URI is part
\* of the submitted configuration if and only if output_format is "gcs_uri",
\* and the URIs are returned then, the local paths otherwise.  The other video
\* nodes have no output format: they always put an output_gcs_uri entry in the
\* configuration and return local paths only.  In both cases a completed
\* result with at least one item comes back as exactly one non-empty list with
\* one entry per generated item.
C25_OneListReturned ==
    (node \in VideoNodes /\ Submitted) =>
        /\ node \in ApiNodes => (SendsOutputUri <=> WantsRemote)
        /\ node \in ProcessNodes => SendsOutputUri
        /\ OneListPerResult
        /\ (pc = "returned" /\ Len(result) >= 1) =>
              ((video_uris # <<>>) <=> WantsRemote)

C25_Witness ==
    /\ node = "t2v" /\ pc = "returned" /\ SendsOutputUri
    /\ video_uris = <<>> /\ Len(video_paths) = 2 /\ Len(result) = 2


\* C26: whenever a request sends an output storage URI to the backend, that URI
\* is non-empty: the caller's value when one is given, a default-generated
\* bucket path when the caller's value is empty; for every video node.
C26_OutputUriNonEmpty ==
    (node \in VideoNodes /\ Submitted /\ SendsOutputUri) =>
        /\ config["output_gcs_uri"] # <<>>
        /\ args.output_gcs_uri # <<>> => config["output_gcs_uri"] = args.output_gcs_uri
        /\ args.output_gcs_uri = <<>> =>
              \E t \in 0..now : config["output_gcs_uri"] = get_default_gcs_uri(default_name(node), t)


\* ------------------------------------------------- option enumerations
\* settings.py: the class bodies of the option enums, name and value of each
\* assignment in order.  In the body `_default = MEMBER` assigns the value of
\* MEMBER, so `_default` is one more name for a value already taken.
EnumBody(e) ==
    CASE e = "AspectRatio" -> <<<<"SIXTEEN_BY_NINE", "16:9">>, <<"NINE_BY_SIXTEEN", "9:16">>,
                                <<"ONE_BY_ONE", "1:1">>, <<"_default", "16:9">>>>
      [] e = "Resolution" -> <<<<"FHD_1080P", "1080p">>, <<"HD_720P", "720p">>,
                               <<"_default", "1080p">>>>
      [] e = "PersonGeneration" -> <<<<"ALLOW_ADULT", "allow_adult">>, <<"DONT_ALLOW", "dont_allow">>,
                                     <<"_default", "allow_adult">>>>
      [] e = "OutputFormat" -> <<<<"LOCAL_FILE", "local_file">>, <<"GCS_URI", "gcs_uri">>,
                                 <<"_default", "local_file">>>>
      [] e = "ImageMimeType" -> <<<<"PNG", "image/png">>, <<"JPEG", "image/jpeg">>,
                                  <<"_default", "image/png">>>>
      [] e = "VideoMimeType" -> <<<<"MP4", "video/mp4">>, <<"_default", "video/mp4">>>>
      [] e = "ReferenceType" -> <<<<"ASSET", "ASSET">>, <<"STYLE", "STYLE">>, <<"_default", "ASSET">>>>
      [] e = "CompressionQuality" -> <<<<"LOSSLESS", "VideoCompressionQuality.LOSSLESS">>,
                                       <<"OPTIMIZED", "VideoCompressionQuality.OPTIMIZED">>,
                                       <<"_default", "VideoCompressionQuality.LOSSLESS">>>>
      [] e = "VeoModel" -> <<<<"V3_1_PREVIEW", "veo-3.1-generate-preview">>,
                             <<"V3_1_FAST_PREVIEW", "veo-3.1-fast-generate-preview">>,
                             <<"V3_0", "veo-3.0-generate-001">>,
                             <<"V3_0_FAST", "veo-3.0-fast-generate-001">>,
                             <<"V2_0", "veo-2.0-generate-001">>,
                             <<"V2_0_EXP", "veo-2.0-generate-exp">>,
                             <<"V2_0_PREVIEW", "veo-2.0-generate-preview">>,
                             <<"_default", "veo-3.1-generate-preview">>>>
      [] e = "MaskModel" -> <<<<"V2_0_PREVIEW", "veo-2.0-generate-preview">>,
                              <<"V2_0", "veo-2.0-generate-001">>,
                              <<"_default", "veo-2.0-generate-preview">>>>
      [] OTHER -> <<>>   \* DefaultMixin itself: `_default = None`, no member

Enums == {"AspectRatio", "Resolution", "PersonGeneration", "OutputFormat", "ImageMimeType",
          "VideoMimeType", "ReferenceType", "CompressionQuality", "VeoModel", "MaskModel"}

\* Enum: a name whose value was assigned before is an alias of the first name
\* with that value; only the first names are members, in definition order.
IsAlias(e, i) == \E j \in 1..(i - 1) : EnumBody(e)[j][2] = EnumBody(e)[i][2]

RECURSIVE MembersFrom(_, _)
MembersFrom(e, i) ==
    IF i > Len(EnumBody(e)) THEN <<>>
    ELSE (IF IsAlias(e, i) THEN <<>> ELSE <<EnumBody(e)[i]>>) \o MembersFrom(e, i + 1)

Members(e) == MembersFrom(e, 1)

\* A value handed to a combo input: a plain value (member.value) or an enum
\* member itself; the enums are not str subclasses, so the two never compare
\* equal.
PlainValue(v) == [member |-> FALSE, v |-> v]

MemberObject(e, name) ==
    [member |-> TRUE, v |-> (CHOOSE m \in Range(EnumBody(e)) : m[1] = name)[2]]

\* DefaultMixin.options: [member.value for member in cls]
options(e) == [i \in 1..Len(Members(e)) |-> PlainValue(Members(e)[i][2])]

\* DefaultMixin.default: cls._default.value, NotImplementedError when
\* cls._default is None.
default(e) ==
    IF \E m \in Range(EnumBody(e)) : m[1] = "_default"
    THEN PlainValue((CHOOSE m \in Range(EnumBody(e)) : m[1] = "_default")[2])
    ELSE [member |-> FALSE, v |-> "<NotImplementedError>"]

Combo(id, e, dflt) == [id |-> id, options |-> options(e), default |-> dflt]

\* define_schema of each node: its IO.Combo.Input declarations.
ComboInputs(n) ==
    LET model    == Combo("model", "VeoModel", default("VeoModel"))
        aspect   == Combo("aspect_ratio", "AspectRatio", default("AspectRatio"))
        res      == Combo("resolution", "Resolution", default("Resolution"))
        person   == Combo("person_generation", "PersonGeneration", default("PersonGeneration"))
        image(id) == Combo(id, "ImageMimeType", default("ImageMimeType"))
        video    == Combo("video_mime_type", "VideoMimeType", default("VideoMimeType"))
    IN CASE n = "t2v" -> {model, aspect, res, person}
         [] n = "i2v" -> {model, aspect, image("image_mime_type"), res, person}
         [] n = "flf" -> {model, aspect, image("first_frame_mime_type"),
                          image("last_frame_mime_type"), res, person}
         [] n = "ref" -> {Combo("reference_type", "ReferenceType", default("ReferenceType")),
                          model, aspect, image("mime_type"), res, person}
         [] n = "ext" -> {Combo("model", "VeoModel", MemberObject("VeoModel", "V2_0")),
                          aspect, video, res, person}
         [] n = "v2v" -> {model, aspect, video, res, person}
         [] n = "api_i2v" -> {image("image_mime_type"), model, aspect, res, person,
                              Combo("compression_quality", "CompressionQuality",
                                    default("CompressionQuality")),
                              Combo("output_format", "OutputFormat", default("OutputFormat"))}
         [] OTHER -> {}

\* C27: every option enumeration is a closed set with one designated default:
\* options() lists each member value exactly once (`_default` adds no option),
\* default() is an element of options() and raises NotImplementedError only
\* when no default is designated, and every combo input declared in the
\* schema of a node has a default that is an element of its own options list.
C27_DefaultsAmongOptions ==
    node \in VideoNodes =>
        /\ \A e \in Enums :
              /\ Len(options(e)) = Cardinality({m[2] : m \in Range(EnumBody(e))})
              /\ \A i, j \in 1..Len(options(e)) : options(e)[i] = options(e)[j] => i = j
              /\ default(e) \in Range(options(e))
        /\ default("DefaultMixin").v = "<NotImplementedError>"
        /\ \A c \in ComboInputs(node) : c.default \in Range(c.options)


\* C28: when the seed is negative (unset), every locally saved file name of the
\* batch carries the marker 'rand' in place of a number, for every negative
\* seed and every item index.
C28_UnsetSeedIsRand ==
    (node \in ApiNodes /\ args.output_format = "local_file" /\ args.seed < 0) =>
        \A i \in 1..Len(video_paths) : SeedOfFile(video_paths[i]) = <<"rand">>


\* C29: the text-to-speech node fails without side effect on the output
\* directory when the backend returns empty audio: the exception is raised
\* before the directory is created or scanned and before any file is written.
\* On success exactly one new file chirp_output_<n>.mp3 is created, its content
\* is the returned audio, and no existing file is modified.
C29_TtsAllOrNothing ==
    node \in TtsNodes =>
        /\ (Len(args.audio) = 0 /\ pc # "start") =>
              /\ pc = "raised" /\ failure = EmptyAudio
              /\ Range(trace) \cap {"makedirs", "listdir", "write"} = {}
              /\ disk = disk0
        /\ pc = "returned" =>
              /\ ChirpFile(Str(counter)) \notin DOMAIN disk0
              /\ DOMAIN disk = DOMAIN disk0 \cup {ChirpFile(Str(counter))}
              /\ disk[ChirpFile(Str(counter))] = args.audio
              /\ video_paths = <<ChirpFile(Str(counter))>>
              /\ Unchanged(disk0, disk)

C29_Witness ==
    /\ node \in TtsNodes /\ Len(args.audio) = 0 /\ pc = "raised"
    /\ "synthesize_speech" \in Range(trace)
    /\ ChirpFile(<<"2">>) \in DOMAIN disk /\ disk = disk0


\* The invocation failed the URI validation of its parser.
UriRejected ==
    /\ pc = "raised" /\ cause[1] = "ValueError"
    /\ disk = disk0 /\ video_paths = <<>>

\* C30: the two storage-URI parsers agree: download_from_gcs and
\* LoadVideoGCS.load_video accept exactly the same URIs (without line breaks),
\* those of the form gs://<non-empty bucket without '/'>/<non-empty path>, and
\* take the same bucket and object path from every URI they accept.
C30_ParsersAgree ==
    node \in StorageNodes =>
        LET g == GcsMatch(args.uri)
            l == LoadVideoParse(args.uri)
        IN /\ g.ok <=> l.ok
           /\ g.ok <=> WellFormedUri(args.uri)
           /\ g.ok => (g.bucket = l.bucket /\ g.blob = l.blob)
           /\ pc # "start" =>
                 /\ UriRejected <=> ~(IF node = "load_video" THEN l.ok ELSE g.ok)
                 /\ pc = "returned" =>
                       /\ disk[video_paths[1]] = Blob(g.bucket, g.blob)
                       /\ disk[video_paths[1]] = Blob(l.bucket, l.blob)

C30_Witness ==
    /\ node = "load_video" /\ pc = "returned"
    /\ args.uri = <<"gs:", "/", "/", "a", "/", "/", "a">>
    /\ GcsMatch(args.uri).bucket = <<"a">> /\ GcsMatch(args.uri).blob = <<"/", "a">>
    /\ disk[video_paths[1]] = Blob(<<"a">>, <<"/", "a">>)

====
